---- MODULE Spec2Model ----
(***************************************************************************)
(* Exchange-rate cache and currency conversion of smart-finances           *)
(* (src/src/expenses.py): expenses_to_csv, convert_foreign_transactions    *)
(* and update_exchange_rate_records, run repeatedly against one cache      *)
(* file; add_and_update_records and session_scope of src/src/database.py;  *)
(* the helpers of expenses.py and helpers.py that build the ledger; two    *)
(* runs sharing one cache file; and the append variant currency_convert of *)
(* src/src/process.py.  Each has its own variables and specification.      *)
(*                                                                         *)
(* Dates are days of June 2023 in memory (datetime64) and ISO strings on   *)
(* disk and in requests.  A rate and an amount are exact fractions         *)
(* <<numerator, denominator>> in lowest terms in memory; a rate is decimal *)
(* text in the file.                                                       *)
(***************************************************************************)
EXTENDS Integers, Sequences, FiniteSets, TLC

VARIABLES
    file,                    \* the exchange-rate CSV: [exists, header, rows]
    initFile,                \* the file as it was before the first run
    outFile,                 \* the ledger CSV written by expenses_to_csv
    pc,                      \* position of the current run
    error,                   \* the exception that ended the run, or "none"
    runs,                    \* runs started so far
    transactions,            \* the ledger handed to convert_foreign_transactions
    existing_exchange_rates, \* the loaded store
    new_date_currencies,     \* the missing (date, currency) pairs
    forex_requests,          \* one request per date: [date, currency_code list]
    rates_list,              \* the responses received so far, one per request
    all_exchange_rates,      \* the merged store the conversion reads
    converted_transactions,  \* the ledger with amount added
    fetchCalls,              \* get_exchange_rates calls made in this run
    warnings,                \* warnings emitted in this run
    strayResponse,           \* some response so far held an unrequested currency
    previous,                \* the run before this one: its ledger and outcome
    http_requests,           \* the GET requests sent in this run, with their status
    atStart,                 \* the two files as they were when this run started
    db_table,                \* the SQL table: the set of its rows [id, name]
    existing_records,        \* the table as add_and_update_records read it
    new_and_updated,         \* the frame handed to add_and_update_records
    db_pc,                   \* position of the add_and_update_records call
    db_error,                \* the exception that ended the call, or "none"
    details,                 \* the argument of the account detection: [kind, text]
    account,                 \* its outcome: [fn, value, raised]
    sheet,                   \* the Date column of the sheet get_excel_table reads
    excel_table,             \* its outcome: [called, rows, raised]
    today,                   \* date.today() in get_year_bound_dates
    start_date,              \* its argument
    boundary_dates,          \* the ranges it returned
    raw_expenses,            \* the expenses fetched range by range
    yb_pc,                   \* position of the range loop of expenses_to_csv
    raw_expenses_df,         \* the expenses expenses_to_csv filters
    filtered_ledger,         \* the rows it hands to the conversion
    ft_pc,                   \* position of the filtering
    ss_pc,                   \* position inside session_scope
    ss_calls,                \* the session methods called in this scope, in order
    ss_block,                \* the exception the with-block raised, or "none"
    ss_raised,               \* the exception that left the scope, or "none"
    ss_history,              \* the outcomes of the scopes ended so far
    cc_file,                 \* the cache file two runs share
    cc_proc,                 \* per run: position, ledger, loaded store, responses
    cc_saved,                \* every record some run has written to cc_file
    cc_overlap,              \* a run loaded while the other was between load and save
    lg_file,                 \* the rate file of currency_convert: its rows
    lg_transactions,         \* the ledger handed to currency_convert
    lg_pc, lg_error,                   \* position of the currency_convert call
    lg_new,                  \* new_date_currs: the missing pairs
    lg_old,                  \* old_rates: the rows read from the file
    lg_rates,                \* the rows built from the responses so far
    lg_result                \* the transactions returned, with Amount

runvars == <<file, initFile, outFile, pc, error, runs, transactions,
             existing_exchange_rates, new_date_currencies, forex_requests,
             rates_list, all_exchange_rates, converted_transactions, fetchCalls,
             warnings, strayResponse, previous, http_requests, atStart>>

dbvars == <<db_table, existing_records, new_and_updated, db_pc, db_error>>

acvars == <<details, account>>

xlvars == <<sheet, excel_table>>

ybvars == <<today, start_date, boundary_dates, raw_expenses, yb_pc>>

ftvars == <<raw_expenses_df, filtered_ledger, ft_pc>>

ssvars == <<ss_pc, ss_calls, ss_block, ss_raised, ss_history>>

ccvars == <<cc_file, cc_proc, cc_saved, cc_overlap>>

lgvars == <<lg_file, lg_transactions, lg_pc, lg_error, lg_new, lg_old, lg_rates,
            lg_result>>

vars == <<runvars, dbvars, acvars, xlvars, ybvars, ftvars, ssvars, ccvars, lgvars>>

\* what each specification leaves alone
notrun == <<dbvars, acvars, xlvars, ybvars, ftvars, ssvars, ccvars, lgvars>>
notdb == <<runvars, acvars, xlvars, ybvars, ftvars, ssvars, ccvars, lgvars>>
notac == <<runvars, dbvars, xlvars, ybvars, ftvars, ssvars, ccvars, lgvars>>
notxl == <<runvars, dbvars, acvars, ybvars, ftvars, ssvars, ccvars, lgvars>>
notyb == <<runvars, dbvars, acvars, xlvars, ftvars, ssvars, ccvars, lgvars>>
notft == <<runvars, dbvars, acvars, xlvars, ybvars, ssvars, ccvars, lgvars>>
notss == <<runvars, dbvars, acvars, xlvars, ybvars, ftvars, ccvars, lgvars>>
notcc == <<runvars, dbvars, acvars, xlvars, ybvars, ftvars, ssvars, lgvars>>
notlg == <<runvars, dbvars, acvars, xlvars, ybvars, ftvars, ssvars, ccvars>>

\* the states in which a part of the program has not begun
DbIdle ==
    /\ db_table = {}
    /\ existing_records = {}
    /\ new_and_updated = <<>>
    /\ db_pc = "idle"
    /\ db_error = "none"

AcIdle ==
    /\ details = [kind |-> "str", missing |-> FALSE, text |-> <<>>]
    /\ account = [fn |-> "none", value |-> "none", raised |-> "none"]

XlIdle ==
    /\ sheet = [datetimes |-> TRUE, rows |-> <<>>]
    /\ excel_table = [called |-> FALSE, rows |-> <<>>, raised |-> "none"]

YbIdle ==
    /\ today = [year |-> 1, day |-> 1]
    /\ start_date = [year |-> 1, day |-> 1]
    /\ boundary_dates = <<>>
    /\ raw_expenses = <<>>
    /\ yb_pc = 0

FtIdle ==
    /\ raw_expenses_df = <<>>
    /\ filtered_ledger = <<>>
    /\ ft_pc = "idle"

SsIdle ==
    /\ ss_pc = "idle"
    /\ ss_calls = <<>>
    /\ ss_block = "none"
    /\ ss_raised = "none"
    /\ ss_history = <<>>

CcIdle ==
    /\ cc_file = [exists |-> FALSE, header |-> <<>>, rows |-> <<>>]
    /\ cc_proc = [p \in {1, 2} |-> [pc |-> "idle"]]
    /\ cc_saved = {}
    /\ cc_overlap = FALSE

LgIdle ==
    /\ lg_file = [exists |-> FALSE, rows |-> <<>>]
    /\ lg_transactions = <<>>
    /\ lg_pc = "idle"
    /\ lg_error = "none"
    /\ lg_new = <<>>
    /\ lg_old = <<>>
    /\ lg_rates = <<>>
    /\ lg_result = <<>>

----------------------------------------------------------------------------
(* Bounds and input domains *)

MaxRows == 2
MaxRuns == 2

DEFAULT_CURRENCY == "GBP"
Currencies == {"EUR", "GBP", "USD"}
SortedCurrencies == <<"EUR", "GBP", "USD">>
Dates == {1, 2}
Owed == {100}

----------------------------------------------------------------------------
(* Generic helpers *)

Range(s) == {s[i] : i \in 1..Len(s)}

RECURSIVE GCD(_, _)
GCD(a, b) == IF b = 0 THEN a ELSE GCD(b, a % b)

\* n / d as a fraction in lowest terms
Frac(n, d) == LET g == GCD(n, d) IN <<n \div g, d \div g>>

\* the product x * r where the quotient is meant
Divide_multiplied(x, r) == Frac(x[1] * r[1], x[2] * r[2])

\* float division x / r of two fractions
Divide(x, r) == Frac(x[1] * r[2], x[2] * r[1])

Digit == <<"0", "1", "2", "3", "4", "5", "6", "7", "8", "9">>

\* strftime(DEFAULT_DATESTR_FORMAT) / .dt.date.astype(str) of a day of June 2023
DateStr(d) == "2023-06-" \o Digit[(d \div 10) + 1] \o Digit[(d % 10) + 1]

\* parsing of an ISO date string into datetime64[ns]
ParseDate(s) == CHOOSE d \in Dates : DateStr(d) = s

\* a float written with one decimal only
FormatFloat_oneDecimal(r) ==
    LET h == (r[1] * 100) \div r[2]
    IN  Digit[(h \div 100) + 1] \o "." \o Digit[((h \div 10) % 10) + 1]

\* repr of a float, as to_csv writes it: the integer part, the point, and
\* the hundredths without a trailing zero (values below 10 with at most two
\* decimals)
FormatFloat(r) ==
    LET h == (r[1] * 100) \div r[2]
    IN  Digit[(h \div 100) + 1] \o "." \o Digit[((h \div 10) % 10) + 1]
            \o (IF h % 10 = 0 THEN "" ELSE Digit[(h % 10) + 1])

\* read_csv's parse of a decimal text into a float; NaN, written <<0, 0>>,
\* for any other text
ParseFloat(s) ==
    CASE s = "1.25" -> <<5, 4>>
      [] s = "1.5"  -> <<3, 2>>
      [] s = "2.0"  -> <<2, 1>>
      [] OTHER      -> <<0, 0>>

\* the composite key f"{date}_{currency}"
date_curr(d, c) == DateStr(d) \o "_" \o c

\* every key of the domain in ascending (lexicographic) string order
AllKeys ==
    [n \in 1..(Cardinality(Dates) * Len(SortedCurrencies)) |->
        date_curr(((n - 1) \div Len(SortedCurrencies)) + 1,
                  SortedCurrencies[((n - 1) % Len(SortedCurrencies)) + 1])]

KeyRank(k) == CHOOSE n \in DOMAIN AllKeys : AllKeys[n] = k

\* insert row r into the key-sorted sequence s after every row with a key <= r's
RECURSIVE InsertByKey(_, _)
InsertByKey(s, r) ==
    IF s = <<>> THEN <<r>>
    ELSE IF KeyRank(s[1].date_curr) <= KeyRank(r.date_curr)
         THEN <<s[1]>> \o InsertByKey(Tail(s), r)
         ELSE <<r>> \o s

\* DataFrame.sort_index(): rows in ascending key order, equal keys in input order
RECURSIVE sort_index(_)
sort_index(s) ==
    IF s = <<>> THEN <<>>
    ELSE InsertByKey(sort_index(SubSeq(s, 1, Len(s) - 1)), s[Len(s)])

\* the index (keys) of a table
IndexOf(table) == {table[i].date_curr : i \in 1..Len(table)}

\* Index.is_unique
IsUnique(table) ==
    \A i, j \in 1..Len(table) : table[i].date_curr = table[j].date_curr => i = j

----------------------------------------------------------------------------
(* The ledger *)

LedgerRows == [id : 1..MaxRows, date : Dates, currency_code : Currencies, owed : Owed]

\* The expenses as expenses_to_csv collects them, before it sorts them: the
\* index is the Splitwise expense id, and an expense fetched in two
\* overlapping year ranges appears twice with the same id and the same fields.
Ledgers ==
    UNION {{l \in [1..n -> LedgerRows] :
               \A i \in 1..n : \/ l[i].id = i
                               \/ \E j \in 1..(i - 1) : l[j].id = j /\ l[i] = l[j]}
           : n \in 0..MaxRows}

\* insert row r into the date-sorted sequence s after every row with a date <= r's
RECURSIVE InsertByDate(_, _)
InsertByDate(s, r) ==
    IF s = <<>> THEN <<r>>
    ELSE IF s[1].date <= r.date
         THEN <<s[1]>> \o InsertByDate(Tail(s), r)
         ELSE <<r>> \o s

\* the rows left as they come, unsorted
sort_values_skipped(s) == s

\* expenses.py 343: .sort_values("date"), rows of one date in input order
RECURSIVE sort_values(_)
sort_values(s) ==
    IF s = <<>> THEN <<>>
    ELSE InsertByDate(sort_values(SubSeq(s, 1, Len(s) - 1)), s[Len(s)])

\* expenses.py 206-210: the composite key of a ledger row
KeyOfRow(t) == date_curr(t.date, t.currency_code)

----------------------------------------------------------------------------
(* The cache file, expenses.py 172-199 *)

exchange_rate_column_names == <<"date_curr", "date", "currency_code", "rate_per_base">>

NoFile == [exists |-> FALSE, header |-> <<>>, rows |-> <<>>]

\* a row of the file for day d, currency c, rate r
FileRow(d, c, r) ==
    [date_curr |-> date_curr(d, c), date |-> DateStr(d),
     currency_code |-> c, rate_per_base |-> FormatFloat(r)]

\* the columns left once read_csv has taken index_col out of the header
ColumnsWithoutIndex(header) ==
    SelectSeq(header, LAMBDA c : c # exchange_rate_column_names[1])

\* a load that reads the file whether or not it exists
LoadError_noFile(f) == IF ~f.exists THEN "FileNotFoundError" ELSE "none"

\* a load that takes the store as empty whatever the file holds
LoadRows_empty(f) == <<>>

\* a load that checks nothing
LoadError_unchecked(f) == "none"

\* expenses.py 178-192: the exception raised while loading f, or "none".
\* read_csv raises ValueError when index_col is no column of the file; the
\* comparison of the columns with the three expected names raises ValueError
\* when the lengths differ, and the assert fails when a name differs.
LoadError(f) ==
    IF ~f.exists THEN "none"
    ELSE IF exchange_rate_column_names[1] \notin Range(f.header) THEN "ValueError"
    ELSE IF Len(ColumnsWithoutIndex(f.header)) # Len(Tail(exchange_rate_column_names))
         THEN "ValueError"
    ELSE IF ColumnsWithoutIndex(f.header) # Tail(exchange_rate_column_names)
         THEN "AssertionError"
    ELSE "none"

\* expenses.py 178-199: the loaded table, dates parsed to datetime64
LoadRows(f) ==
    IF ~f.exists THEN <<>>
    ELSE [i \in 1..Len(f.rows) |->
             [date_curr |-> f.rows[i].date_curr,
              date |-> ParseDate(f.rows[i].date),
              currency_code |-> f.rows[i].currency_code,
              rate_per_base |-> ParseFloat(f.rows[i].rate_per_base)]]

\* no write: the file stays as it is
to_csv_skipped(table) == file

\* expenses.py 255-261: to_csv(mode="w", date_format=..., header=True)
to_csv(table) ==
    [exists |-> TRUE,
     header |-> exchange_rate_column_names,
     rows |-> [i \in 1..Len(table) |->
                  [date_curr |-> table[i].date_curr,
                   date |-> DateStr(table[i].date),
                   currency_code |-> table[i].currency_code,
                   rate_per_base |-> FormatFloat(table[i].rate_per_base)]]]

----------------------------------------------------------------------------
(* The missing pairs and the requests, expenses.py 206-230 *)

\* the base-currency rows kept
DropDefaultCurrency_kept(trans) == trans

\* expenses.py 212-214: the rows left after drop() of the index labels of the
\* base-currency rows
DropDefaultCurrency(trans) ==
    LET labels == {trans[i].id : i \in {j \in 1..Len(trans) :
                                           trans[j].currency_code = DEFAULT_CURRENCY}}
    IN  SelectSeq(trans, LAMBDA t : t.id \notin labels)

\* every row kept, repeated keys included
drop_duplicates_kept(trans, seen) ==
    [i \in 1..Len(trans) |->
        [date_curr |-> KeyOfRow(trans[i]), date |-> trans[i].date,
         currency_code |-> trans[i].currency_code]]

\* expenses.py 215-217: one row per composite key, the first occurrence kept
RECURSIVE drop_duplicates(_, _)
drop_duplicates(trans, seen) ==
    IF trans = <<>> THEN <<>>
    ELSE IF KeyOfRow(trans[1]) \in seen THEN drop_duplicates(Tail(trans), seen)
    ELSE <<[date_curr |-> KeyOfRow(trans[1]), date |-> trans[1].date,
            currency_code |-> trans[1].currency_code]>>
         \o drop_duplicates(Tail(trans), seen \cup {KeyOfRow(trans[1])})

date_currencies(trans) == drop_duplicates(DropDefaultCurrency(trans), {})

\* every pair of the ledger taken as missing, the store ignored
NewDateCurrencies_all(trans, existing) == sort_index(date_currencies(trans))

\* expenses.py 219-221: the rows of date_currencies whose key is not in the
\* store's index, in the ascending key order of Index.difference
NewDateCurrencies(trans, existing) ==
    sort_index(SelectSeq(date_currencies(trans),
                         LAMBDA r : r.date_curr \notin IndexOf(existing)))

\* the days of S in ascending order
RECURSIVE SortedDays(_)
SortedDays(S) ==
    IF S = {} THEN <<>>
    ELSE LET m == CHOOSE d \in S : \A e \in S : d <= e
         IN  <<m>> \o SortedDays(S \ {m})

\* one request per missing pair, no grouping
ForexRequests_perPair(newdc) ==
    [k \in 1..Len(newdc) |->
        [date |-> DateStr(newdc[k].date),
         currency_code |-> <<newdc[k].currency_code>>]]

\* expenses.py 226-230: groupby the date string, currencies collected in a list
ForexRequests(newdc) ==
    LET days == SortedDays({newdc[i].date : i \in 1..Len(newdc)})
    IN  [k \in 1..Len(days) |->
            [date |-> DateStr(days[k]),
             currency_code |->
                 LET rows == SelectSeq(newdc, LAMBDA r : r.date = days[k])
                 IN  [i \in 1..Len(rows) |-> rows[i].currency_code]]]

----------------------------------------------------------------------------
(* The fetch, expenses.py 66-84 *)

\* the currencies of cs as a list, in the key order of the response
RatesKeys(cs) == SelectSeq(SortedCurrencies, LAMBDA c : c \in cs)

\* The "rates" object of a response to a request for the currencies R: all
\* of them, all but one, or one currency more than was asked for.
Responses(R) ==
    {R} \cup {R \ {c} : c \in R} \cup {R \cup {c} : c \in Currencies}

\* The rate the upstream source quotes during run n: 1.25 in the first run,
\* revised to 2.0 afterwards.
UpstreamRate(n) == IF n = 1 THEN <<5, 4>> ELSE <<2, 1>>

\* expenses.py 81-84: one record per key of the response's "rates", whatever
\* was asked for in symbols; here every returned currency has rate r
get_exchange_rates(symbols, conversion_date, cs, r) ==
    [i \in 1..Len(RatesKeys(cs)) |->
        [date_curr |-> conversion_date \o "_" \o RatesKeys(cs)[i],
         date |-> conversion_date,
         currency_code |-> RatesKeys(cs)[i],
         rate_per_base |-> r]]

\* the status codes the rates API answers a request with
StatusCodes == {200, 204, 500}

\* every status taken as a success
RaisesAPICallError_never(status) == FALSE

\* apis.py 37-39: a status other than 200 raises APICallError
RaisesAPICallError(status) == status # 200

----------------------------------------------------------------------------
(* The merge, expenses.py 242-250 *)

\* Series.explode(): the records of all responses in order
RECURSIVE explode(_)
explode(rl) == IF rl = <<>> THEN <<>> ELSE rl[1] \o explode(Tail(rl))

\* the records of the first response alone
NewExchangeRates_firstOnly(rl) ==
    [i \in 1..Len(rl[1]) |->
        [date_curr |-> rl[1][i].date_curr,
         date |-> ParseDate(rl[1][i].date),
         currency_code |-> rl[1][i].currency_code,
         rate_per_base |-> rl[1][i].rate_per_base]]

\* expenses.py 242-246: from_records and astype, the date parsed to datetime64
NewExchangeRates(rl) ==
    LET recs == explode(rl)
    IN  [i \in 1..Len(recs) |->
            [date_curr |-> recs[i].date_curr,
             date |-> ParseDate(recs[i].date),
             currency_code |-> recs[i].currency_code,
             rate_per_base |-> recs[i].rate_per_base]]

\* the new records alone, the loaded ones left out
MergeRates_newOnly(existing, new) == sort_index(new)

\* the concatenation left unsorted
MergeRates_unsorted(existing, new) == existing \o new

\* expenses.py 248-250: concat then sort_index
MergeRates(existing, new) == sort_index(existing \o new)

----------------------------------------------------------------------------
(* The conversion, expenses.py 151-157 *)

\* fillna(0) where fillna(1) is meant
MappedRate_zero(key, table) ==
    IF key \in IndexOf(table)
    THEN (CHOOSE rec \in Range(table) : rec.date_curr = key).rate_per_base
    ELSE <<0, 1>>

\* the rate a key maps to: .map(rate_per_base) then .fillna(1)
MappedRate(key, table) ==
    IF key \in IndexOf(table)
    THEN (CHOOSE rec \in Range(table) : rec.date_curr = key).rate_per_base
    ELSE <<1, 1>>

\* expenses.py 151-156: amount = owed / rate, the key column dropped
ConvertRow(t, table) ==
    [id |-> t.id, date |-> t.date, currency_code |-> t.currency_code,
     owed |-> t.owed,
     amount |-> Divide(<<t.owed, 1>>, MappedRate(KeyOfRow(t), table))]

\* only the rows whose key has a record, as an inner join would give
ConvertAll_matchedOnly(trans, table) ==
    LET matched == SelectSeq(trans, LAMBDA t : KeyOfRow(t) \in IndexOf(table))
    IN  [i \in 1..Len(matched) |-> ConvertRow(matched[i], table)]

\* expenses.py 151-156 over the whole ledger, row by row in its order
ConvertAll(trans, table) == [i \in 1..Len(trans) |-> ConvertRow(trans[i], table)]

----------------------------------------------------------------------------
(* Initial states *)

CanonicalFile(rows) ==
    [exists |-> TRUE, header |-> exchange_rate_column_names, rows |-> rows]

\* The cache file before the first run: absent, empty, holding records of
\* earlier runs (one of them made with another base currency, one pair saved
\* twice), records out of key order, the key column in another place, or a
\* header that is not the schema.
InitFiles ==
    { NoFile,
      CanonicalFile(<<>>),
      CanonicalFile(<<FileRow(1, "USD", <<3, 2>>)>>),
      CanonicalFile(<<FileRow(1, "GBP", <<2, 1>>)>>),
      CanonicalFile(<<FileRow(1, "USD", <<3, 2>>), FileRow(1, "USD", <<2, 1>>)>>),
      CanonicalFile(<<FileRow(2, "EUR", <<3, 2>>), FileRow(1, "USD", <<3, 2>>)>>),
      [exists |-> TRUE,
       header |-> <<"date", "date_curr", "currency_code", "rate_per_base">>,
       rows |-> <<FileRow(1, "USD", <<3, 2>>)>>],
      [exists |-> TRUE,
       header |-> <<"date_curr", "date", "currency", "rate">>,
       rows |-> <<FileRow(1, "USD", <<3, 2>>)>>],
      [exists |-> TRUE,
       header |-> <<"date", "currency_code", "rate_per_base">>,
       rows |-> <<FileRow(1, "USD", <<3, 2>>)>>],
      [exists |-> TRUE,
       header |-> <<"date_curr", "date", "currency_code", "rate_per_base", "source">>,
       rows |-> <<FileRow(1, "USD", <<3, 2>>)>>] }

\* no run has started
RunIdle ==
    /\ initFile = file
    /\ outFile = <<>>
    /\ pc = "idle"
    /\ error = "none"
    /\ runs = 0
    /\ transactions = <<>>
    /\ existing_exchange_rates = <<>>
    /\ new_date_currencies = <<>>
    /\ forex_requests = <<>>
    /\ rates_list = <<>>
    /\ all_exchange_rates = <<>>
    /\ converted_transactions = <<>>
    /\ fetchCalls = 0
    /\ warnings = 0
    /\ strayResponse = FALSE
    /\ previous = [transactions |-> <<>>, complete |-> FALSE, calls |-> 0,
                   saved |-> FALSE, store |-> <<>>]
    /\ http_requests = <<>>
    /\ atStart = [file |-> file, outFile |-> <<>>]

Init ==
    /\ file \in InitFiles
    /\ RunIdle
    /\ DbIdle /\ AcIdle /\ XlIdle /\ YbIdle /\ FtIdle /\ SsIdle /\ CcIdle /\ LgIdle

----------------------------------------------------------------------------
(* One run: expenses_to_csv 345-351 calling convert_foreign_transactions *)

\* update_exchange_rate_records has returned in the current run
UpdateReturned ==
    pc \in {"convert", "write", "done"} \/ error \in {"InvalidIndexError", "OSError"}

\* the run ended in the conversion or in the writing of the ledger
FailedAfterUpdate == pc = "failed" /\ error \in {"InvalidIndexError", "OSError"}

\* the run has written the cache file
Saved ==
    /\ new_date_currencies # <<>>
    /\ (pc \in {"convert", "write", "done"} \/ FailedAfterUpdate)

\* every response so far holds a rate for every currency of its request
FullResponses ==
    \A k \in 1..Len(rates_list) :
        Range(forex_requests[k].currency_code)
            \subseteq {rates_list[k][i].currency_code : i \in 1..Len(rates_list[k])}

\* a new run (a new process) starts: expenses_to_csv 342-349 sorts the
\* expenses by date and pipes them to convert_foreign_transactions
StartRun ==
    /\ pc \in {"idle", "done", "failed"}
    /\ runs < MaxRuns
    /\ \E l \in Ledgers : transactions' = sort_values(l)
    /\ runs' = runs + 1
    /\ pc' = "load"
    /\ error' = "none"
    /\ existing_exchange_rates' = <<>>
    /\ new_date_currencies' = <<>>
    /\ forex_requests' = <<>>
    /\ rates_list' = <<>>
    /\ all_exchange_rates' = <<>>
    /\ converted_transactions' = <<>>
    /\ fetchCalls' = 0
    /\ warnings' = 0
    /\ previous' = [transactions |-> transactions,
                    complete |-> UpdateReturned /\ FullResponses,
                    calls |-> fetchCalls,
                    saved |-> Saved,
                    store |-> IF Saved THEN all_exchange_rates ELSE <<>>]
    /\ http_requests' = <<>>
    /\ atStart' = [file |-> file, outFile |-> outFile]
    /\ UNCHANGED <<file, initFile, outFile, strayResponse>>
    /\ UNCHANGED notrun

\* update_exchange_rate_records 172-223 and 262-263: load the file, check its
\* columns, compute the missing pairs and the requests
LoadRates ==
    /\ pc = "load"
    /\ IF LoadError(file) # "none"
       THEN /\ pc' = "failed"
            /\ error' = LoadError(file)
            /\ UNCHANGED <<existing_exchange_rates, new_date_currencies,
                           forex_requests, all_exchange_rates>>
       ELSE LET existing == LoadRows(file)
                newdc == NewDateCurrencies(transactions, existing)
            IN  /\ existing_exchange_rates' = existing
                /\ new_date_currencies' = newdc
                /\ error' = error
                /\ IF Len(newdc) > 0
                   THEN /\ forex_requests' = ForexRequests(newdc)
                        /\ pc' = "fetch"
                        /\ UNCHANGED all_exchange_rates
                   ELSE /\ all_exchange_rates' = existing
                        /\ pc' = "convert"
                        /\ UNCHANGED forex_requests
    /\ UNCHANGED <<file, initFile, outFile, runs, transactions, rates_list,
                   converted_transactions, fetchCalls, warnings, strayResponse,
                   previous, http_requests, atStart>>
    /\ UNCHANGED notrun

\* update_exchange_rate_records 233-238, one row of forex_requests:
\* get_exchange_rates 66-84 with APICall.make_api_call (apis.py 33-40), which
\* sends one GET request, counts the call and raises APICallError on a status
\* other than 200; the exception is caught nowhere on the way up
GetExchangeRates ==
    /\ pc = "fetch"
    /\ Len(rates_list) < Len(forex_requests)
    /\ LET req == forex_requests[Len(rates_list) + 1]
       IN  \E status \in StatusCodes :
           /\ fetchCalls' = fetchCalls + 1
           /\ http_requests' = Append(http_requests,
                  [date |-> req.date, symbols |-> req.currency_code,
                   status |-> status])
           /\ IF RaisesAPICallError(status)
              THEN /\ pc' = "failed"
                   /\ error' = "APICallError"
                   /\ UNCHANGED <<rates_list, strayResponse>>
              ELSE \E cs \in Responses(Range(req.currency_code)) :
                   /\ rates_list' = Append(rates_list,
                          get_exchange_rates(req.currency_code, req.date, cs,
                                             UpstreamRate(runs)))
                   /\ strayResponse' =
                          (strayResponse \/ ~(cs \subseteq Range(req.currency_code)))
                   /\ pc' = IF Len(rates_list) + 1 = Len(forex_requests)
                            THEN "save" ELSE "fetch"
                   /\ error' = error
    /\ UNCHANGED <<file, initFile, outFile, runs, transactions,
                   existing_exchange_rates, new_date_currencies, forex_requests,
                   all_exchange_rates, converted_transactions, warnings, previous,
                   atStart>>
    /\ UNCHANGED notrun

\* from_records (242-246) is given the exploded Series itself.  explode() puts
\* NaN where a response was empty, and NaN is no record: TypeError.  It reads
\* the first record as data[0], a lookup by index label; when the first
\* request returned several records the label 0 is repeated and the lookup
\* yields a Series of records, which some pandas versions reject.
FromRecordsRaises == \E i \in 1..Len(rates_list) : rates_list[i] = <<>>

FromRecordsMayRaise == ~FromRecordsRaises /\ Len(rates_list[1]) > 1

\* update_exchange_rate_records 242-261: build the new records, merge, sort
\* and overwrite the file
SaveRates ==
    /\ pc = "save"
    /\ \/ /\ FromRecordsRaises
          /\ pc' = "failed"
          /\ error' = "TypeError"
          /\ UNCHANGED <<file, all_exchange_rates>>
       \/ /\ FromRecordsMayRaise
          /\ pc' = "failed"
          /\ error' = "AttributeError"
          /\ UNCHANGED <<file, all_exchange_rates>>
       \/ /\ ~FromRecordsRaises
          /\ all_exchange_rates' =
                 MergeRates(existing_exchange_rates, NewExchangeRates(rates_list))
          /\ file' = to_csv(all_exchange_rates')
          /\ pc' = "convert"
          /\ error' = error
    /\ UNCHANGED <<initFile, outFile, runs, transactions, existing_exchange_rates,
                   new_date_currencies, forex_requests, rates_list,
                   converted_transactions, fetchCalls, warnings, strayResponse,
                   previous, http_requests, atStart>>
    /\ UNCHANGED notrun

\* convert_foreign_transactions 151-157.  Series.map with a Series argument
\* looks the keys up with Index.get_indexer, which raises InvalidIndexError
\* when the store's index is not unique.  No warning or log is emitted.
ConvertTransactions ==
    /\ pc = "convert"
    /\ IF IsUnique(all_exchange_rates)
       THEN /\ converted_transactions' = ConvertAll(transactions, all_exchange_rates)
            /\ pc' = "write"
            /\ error' = error
       ELSE /\ pc' = "failed"
            /\ error' = "InvalidIndexError"
            /\ UNCHANGED converted_transactions
    /\ warnings' = warnings
    /\ UNCHANGED <<file, initFile, outFile, runs, transactions,
                   existing_exchange_rates, new_date_currencies, forex_requests,
                   rates_list, all_exchange_rates, fetchCalls, strayResponse,
                   previous, http_requests, atStart>>
    /\ UNCHANGED notrun

\* expenses_to_csv 351: the converted ledger is written to output_file, or
\* the file cannot be opened for writing and to_csv raises OSError
WriteLedger ==
    /\ pc = "write"
    /\ \/ /\ outFile' = converted_transactions
          /\ pc' = "done"
          /\ error' = error
       \/ /\ pc' = "failed"
          /\ error' = "OSError"
          /\ UNCHANGED outFile
    /\ UNCHANGED <<file, initFile, runs, transactions,
                   existing_exchange_rates, new_date_currencies, forex_requests,
                   rates_list, all_exchange_rates, converted_transactions,
                   fetchCalls, warnings, strayResponse, previous, http_requests,
                   atStart>>
    /\ UNCHANGED notrun

Next ==
    \/ StartRun
    \/ LoadRates
    \/ GetExchangeRates
    \/ SaveRates
    \/ ConvertTransactions
    \/ WriteLedger

Spec == Init /\ [][Next]_vars

----------------------------------------------------------------------------
(* add_and_update_records, database.py 128-147, on a table [id, name] whose *)
(* primary key is id, as tests/test_database.py 10-13 declares it           *)

MaxRecords == 2

DbKeys == {1, 2, 3}
Names == {"Banana", "Test"}

DbRows == [id : DbKeys, name : Names]

\* the primary-key values of a set or a sequence of rows
KeysOf(rows) == {r.id : r \in rows}

\* the tables the call can find: at most one row per primary key
Tables == {T \in SUBSET DbRows : \A r, q \in T : r.id = q.id => r = q}

\* the frames the call can be given
Frames == UNION {[1..n -> DbRows] : n \in 0..MaxRecords}

\* database.py 133-134: the rows of the frame whose key is not in the table
new_records(frame, existing) ==
    SelectSeq(frame, LAMBDA r : r.id \notin KeysOf(existing))

\* database.py 141-142: the rows of the frame whose key is in the table
modified_records(frame, existing) ==
    SelectSeq(frame, LAMBDA r : r.id \in KeysOf(existing))

\* the run part at rest, with no cache file
RunRest == file = NoFile /\ RunIdle

InitDb ==
    /\ RunRest
    /\ AcIdle /\ XlIdle /\ YbIdle /\ FtIdle /\ SsIdle /\ CcIdle /\ LgIdle
    /\ db_table \in Tables
    /\ existing_records = {}
    /\ new_and_updated = <<>>
    /\ db_pc = "idle"
    /\ db_error = "none"

\* database.py 132-139: the table is read and the new rows are appended in
\* one multi-row INSERT, committed by to_sql; two new rows with one key
\* violate the primary key and the INSERT raises IntegrityError
AppendNewRecords ==
    /\ db_pc = "idle"
    /\ \E frame \in Frames :
        LET new == new_records(frame, db_table)
        IN  /\ new_and_updated' = frame
            /\ existing_records' = db_table
            /\ IF \E i, j \in 1..Len(new) : i # j /\ new[i].id = new[j].id
               THEN /\ db_pc' = "failed"
                    /\ db_error' = "IntegrityError"
                    /\ UNCHANGED db_table
               ELSE /\ db_table' = db_table \cup Range(new)
                    /\ db_pc' = "modify"
                    /\ db_error' = db_error
    /\ UNCHANGED notdb

\* database.py 141-147 with session_scope 151-162: for the first modified
\* row, session.query is given the table's name, a string, and raises
\* ArgumentError (the filter_by call, the lookup row[prim_key] in the tuple
\* that iterrows yields and the string concatenation after it would raise
\* TypeError); session_scope rolls back a session that holds no change and
\* re-raises.  No row is updated.  Without modified rows the session commits.
UpdateModifiedRecords ==
    /\ db_pc = "modify"
    /\ IF modified_records(new_and_updated, existing_records) # <<>>
       THEN /\ db_pc' = "failed"
            /\ db_error' = "ArgumentError"
       ELSE /\ db_pc' = "done"
            /\ db_error' = db_error
    /\ UNCHANGED <<db_table, existing_records, new_and_updated>>
    /\ UNCHANGED notdb

NextDb ==
    \/ AppendNewRecords
    \/ UpdateModifiedRecords

SpecDb == InitDb /\ [][NextDb]_vars

----------------------------------------------------------------------------
(* Account detection: determine_account_from_details, expenses.py 122-126, *)
(* and find_account_in_text, helpers.py 117-124.  A text is a sequence of  *)
(* characters.                                                             *)

MaxTokens == 3

\* the pieces the details texts are made of
Tokens == {<<"p", "a", "y">>, <<"p", "a", "l">>, <<"P", "A", "Y">>,
           <<"P", "a", "L">>, <<" ">>, <<"x">>}

RECURSIVE TextsOf(_)
TextsOf(n) ==
    IF n = 0 THEN {<<>>}
    ELSE TextsOf(n - 1) \cup {t \o k : t \in TextsOf(n - 1), k \in Tokens}

Texts == TextsOf(MaxTokens)

\* the argument: a plain str or a Series holding one value, either of them
\* with a text or with a missing value (None, NaN) in its place
DetailsValues == [kind : {"str", "Series"}, missing : BOOLEAN, text : Texts]

\* the letter ch folded to lower case, as re.IGNORECASE compares
Lower(ch) ==
    CASE ch = "P" -> "p"
      [] ch = "A" -> "a"
      [] ch = "Y" -> "y"
      [] ch = "L" -> "l"
      [] OTHER    -> ch

\* the literal pattern of both functions
paypal == <<"p", "a", "y", "p", "a", "l">>

\* re.search / str.contains with re.IGNORECASE: the pattern occurs somewhere
Contains(text) ==
    \E i \in 0..(Len(text) - Len(paypal)) :
        \A k \in 1..Len(paypal) : Lower(text[i + k]) = paypal[k]

\* expenses.py 125: account_map for True and False
account_map(found) == IF found THEN "PayPal" ELSE "Current"

InitAc ==
    /\ RunRest
    /\ DbIdle /\ XlIdle /\ YbIdle /\ FtIdle /\ SsIdle /\ CcIdle /\ LgIdle
    /\ details \in {d \in DetailsValues : d.missing => d.text = <<>>}
    /\ account = [fn |-> "none", value |-> "none", raised |-> "none"]

\* expenses.py 122-126: details.str.contains(...).map(account_map).  A str
\* (and None) has no attribute str: AttributeError.  In a Series a missing
\* value gives NaN from str.contains; whether the lookup of NaN finds the key
\* None of account_map depends on the pandas version, so the element comes
\* out as "Current" or stays NaN.
determine_account_from_details ==
    /\ account.fn = "none"
    /\ \/ /\ details.kind = "str"
          /\ account' = [fn |-> "determine_account_from_details",
                         value |-> "none", raised |-> "AttributeError"]
       \/ /\ details.kind = "Series" /\ details.missing
          /\ \E v \in {"Current", "NaN"} :
                 account' = [fn |-> "determine_account_from_details",
                             value |-> v, raised |-> "none"]
       \/ /\ details.kind = "Series" /\ ~details.missing
          /\ account' = [fn |-> "determine_account_from_details",
                         value |-> account_map(Contains(details.text)),
                         raised |-> "none"]
    /\ UNCHANGED details
    /\ UNCHANGED notac

\* helpers.py 117-124: re.search on the argument, which raises TypeError for
\* anything but a str (None, a Series)
find_account_in_text ==
    /\ account.fn = "none"
    /\ IF details.kind = "str" /\ ~details.missing
       THEN account' = [fn |-> "find_account_in_text",
                        value |-> account_map(Contains(details.text)),
                        raised |-> "none"]
       ELSE account' = [fn |-> "find_account_in_text",
                        value |-> "none", raised |-> "TypeError"]
    /\ UNCHANGED details
    /\ UNCHANGED notac

NextAc ==
    \/ determine_account_from_details
    \/ find_account_in_text

SpecAc == InitAc /\ [][NextAc]_vars

----------------------------------------------------------------------------
(* get_excel_table, helpers.py 15-27, and the exception classes of the     *)
(* package, __init__.py 8-10.                                              *)

MaxSheetRows == 3
MaxSheetDay == 3

SheetRows == [date : 1..MaxSheetDay, amount : {10, 20}]

RECURSIVE SheetsOf(_)
SheetsOf(n) ==
    IF n = 0 THEN {<<>>}
    ELSE SheetsOf(n - 1)
            \cup {t \o <<r>> : t \in SheetsOf(n - 1), r \in SheetRows}

\* a sheet as read_excel returns it: the data rows, and whether the Date
\* column holds datetimes
Sheets == [datetimes : BOOLEAN, rows : SheetsOf(MaxSheetRows)]

\* the two classes called NoDataWarning and the class each derives from
BaseClass(cls) ==
    CASE cls = "src.helpers.NoDataWarning" -> "Warning"
      [] cls = "src.NoDataWarning"         -> "Warning"
      [] cls = "Warning"                   -> "Exception"
      [] OTHER                             -> "Exception"

\* isinstance(raised, cls), as pytest.raises(cls) and an except clause test it
IsInstance(raised, cls) ==
    \/ raised = cls
    \/ BaseClass(raised) = cls
    \/ BaseClass(BaseClass(raised)) = cls

InitXl ==
    /\ RunRest
    /\ DbIdle /\ AcIdle /\ YbIdle /\ FtIdle /\ SsIdle /\ CcIdle /\ LgIdle
    /\ sheet \in Sheets
    /\ excel_table = [called |-> FALSE, rows |-> <<>>, raised |-> "none"]

\* helpers.py 19-27.  The class raised on an empty sheet is the one helpers.py
\* defines at lines 15-16.  .dt on a column that holds no datetimes raises
\* AttributeError.
get_excel_table ==
    /\ ~excel_table.called
    /\ excel_table' =
          IF Len(sheet.rows) = 0
          THEN [called |-> TRUE, rows |-> <<>>,
                raised |-> "src.helpers.NoDataWarning"]
          ELSE IF ~sheet.datetimes
          THEN [called |-> TRUE, rows |-> <<>>, raised |-> "AttributeError"]
          ELSE [called |-> TRUE, rows |-> sort_values(sheet.rows),
                raised |-> "none"]
    /\ UNCHANGED sheet
    /\ UNCHANGED notxl

NextXl == get_excel_table

SpecXl == InitXl /\ [][NextXl]_vars

----------------------------------------------------------------------------
(* Two runs of update_exchange_rate_records on one cache file, expenses.py  *)
(* 164-263.  Nothing in the function locks the file: a run reads it once    *)
(* (178-192) and overwrites it once (255-261), and other processes may      *)
(* read or write it in between.                                             *)

MaxCcRuns == 2

Procs == {1, 2}

\* the cache files the runs start from
CcFiles == {f \in InitFiles : Len(f.rows) <= 1}

\* the ledgers of the runs: at most one expense, so that a request has one
\* currency and a complete response one record
CcLedgers == {sort_values(l) : l \in {m \in Ledgers : Len(m) <= 1}}

\* a process that has not run
CcProcIdle ==
    [pc |-> "idle", runs |-> 0, transactions |-> <<>>,
     existing_exchange_rates |-> <<>>, forex_requests |-> <<>>,
     rates_list |-> <<>>]

\* the other process has read the file and has not yet written it
CcBetweenLoadAndSave(p) ==
    \E q \in Procs \ {p} : cc_proc[q].pc \in {"fetch", "save"}

InitCc ==
    /\ RunRest
    /\ DbIdle /\ AcIdle /\ XlIdle /\ YbIdle /\ FtIdle /\ SsIdle /\ LgIdle
    /\ cc_file \in CcFiles
    /\ cc_proc = [p \in Procs |-> CcProcIdle]
    /\ cc_saved = {}
    /\ cc_overlap = FALSE

\* process p starts a run on a ledger: 172-230, the file is read and the
\* missing pairs and the requests are computed from what was read
CcLoad(p) ==
    /\ cc_proc[p].pc \in {"idle", "done", "failed"}
    /\ cc_proc[p].runs < MaxCcRuns
    /\ \E l \in CcLedgers :
          IF LoadError(cc_file) # "none"
          THEN /\ cc_proc' = [cc_proc EXCEPT ![p] =
                      [pc |-> "failed", runs |-> @.runs + 1, transactions |-> l,
                       existing_exchange_rates |-> <<>>, forex_requests |-> <<>>,
                       rates_list |-> <<>>]]
               /\ UNCHANGED cc_overlap
          ELSE LET existing == LoadRows(cc_file)
                   newdc == NewDateCurrencies(l, existing)
               IN  /\ cc_proc' = [cc_proc EXCEPT ![p] =
                          [pc |-> IF Len(newdc) > 0 THEN "fetch" ELSE "done",
                           runs |-> @.runs + 1, transactions |-> l,
                           existing_exchange_rates |-> existing,
                           forex_requests |-> ForexRequests(newdc),
                           rates_list |-> <<>>]]
                   /\ cc_overlap' =
                          (cc_overlap \/ (Len(newdc) > 0 /\ CcBetweenLoadAndSave(p)))
    /\ UNCHANGED <<cc_file, cc_saved>>
    /\ UNCHANGED notcc

\* 233-238: every request of process p answered with the requested rates
CcFetch(p) ==
    /\ cc_proc[p].pc = "fetch"
    /\ cc_proc' = [cc_proc EXCEPT ![p].pc = "save",
                                  ![p].rates_list =
           [k \in 1..Len(cc_proc[p].forex_requests) |->
               LET req == cc_proc[p].forex_requests[k]
               IN  get_exchange_rates(req.currency_code, req.date,
                                      Range(req.currency_code), UpstreamRate(p))]]
    /\ UNCHANGED <<cc_file, cc_saved, cc_overlap>>
    /\ UNCHANGED notcc

\* 242-261: process p merges what it fetched into what it had read and
\* overwrites the file
CcSave(p) ==
    /\ cc_proc[p].pc = "save"
    /\ cc_file' = to_csv(MergeRates(cc_proc[p].existing_exchange_rates,
                                    NewExchangeRates(cc_proc[p].rates_list)))
    /\ cc_saved' = cc_saved \cup Range(cc_file'.rows)
    /\ cc_proc' = [cc_proc EXCEPT ![p].pc = "done"]
    /\ UNCHANGED cc_overlap
    /\ UNCHANGED notcc

NextCc == \E p \in Procs : CcLoad(p) \/ CcFetch(p) \/ CcSave(p)

SpecCc == InitCc /\ [][NextCc]_vars

----------------------------------------------------------------------------
(* The year ranges, expenses.py 103-119 (the same function is helpers.py    *)
(* 127-139), and the loop of expenses_to_csv that fetches them, 281-286.    *)
(* A date is a year and a day of that year; a year has DaysPerYear days.    *)

MaxYear == 3
DaysPerYear == 3

CalendarDays == [year : 1..MaxYear, day : 1..DaysPerYear]

\* the dates in calendar order
DayNumber(d) == (d.year - 1) * DaysPerYear + d.day

DateOfNumber(n) ==
    [year |-> ((n - 1) \div DaysPerYear) + 1, day |-> ((n - 1) % DaysPerYear) + 1]

\* f"{year}-01-01" and f"{year}-12-31"
FirstOfYear(y) == [year |-> y, day |-> 1]
LastOfYear(y) == [year |-> y, day |-> DaysPerYear]

\* today + timedelta(days=1)
NextDay(d) ==
    IF d.day = DaysPerYear THEN FirstOfYear(d.year + 1)
    ELSE [year |-> d.year, day |-> d.day + 1]

\* expenses.py 103-119: the range from the start date to the end of its year,
\* one range per year strictly between the start year and this year, and
\* the range from the first day of this year to tomorrow
get_year_bound_dates(start, now) ==
    LET years_since_start ==
            [k \in 1..(IF now.year > start.year + 1
                       THEN now.year - start.year - 1 ELSE 0) |-> start.year + k]
    IN  <<<<start, LastOfYear(start.year)>>>>
        \o [k \in 1..Len(years_since_start) |->
               <<FirstOfYear(years_since_start[k]), LastOfYear(years_since_start[k])>>]
        \o <<<<FirstOfYear(now.year), NextDay(now)>>>>

\* The expenses on Splitwise: one on every calendar day, identified by its
\* date.  A call with dated_after and dated_before returns the expenses
\* dated from the first to the second, in date order.
get_raw_expenses_splitwise(min_date, max_date) ==
    SelectSeq([n \in 1..(MaxYear * DaysPerYear) |->
                  [id |-> n, date |-> DateOfNumber(n)]],
              LAMBDA e : /\ DayNumber(min_date) <= e.id
                         /\ e.id <= DayNumber(max_date))

InitYb ==
    /\ RunRest
    /\ DbIdle /\ AcIdle /\ XlIdle /\ FtIdle /\ SsIdle /\ CcIdle /\ LgIdle
    /\ today \in CalendarDays
    /\ start_date \in {d \in CalendarDays : DayNumber(d) <= DayNumber(today)}
    /\ boundary_dates = <<>>
    /\ raw_expenses = <<>>
    /\ yb_pc = 0

\* expenses_to_csv 283: dates = get_year_bound_dates(start_date)
GetYearBoundDates ==
    /\ yb_pc = 0
    /\ boundary_dates' = get_year_bound_dates(start_date, today)
    /\ yb_pc' = 1
    /\ UNCHANGED <<today, start_date, raw_expenses>>
    /\ UNCHANGED notyb

\* expenses_to_csv 284-286, one turn of the loop: the expenses of the next
\* range are appended to raw_expenses
GetRawExpenses ==
    /\ yb_pc >= 1 /\ yb_pc <= Len(boundary_dates)
    /\ raw_expenses' = raw_expenses
           \o get_raw_expenses_splitwise(boundary_dates[yb_pc][1],
                                         boundary_dates[yb_pc][2])
    /\ yb_pc' = yb_pc + 1
    /\ UNCHANGED <<today, start_date, boundary_dates>>
    /\ UNCHANGED notyb

NextYb == GetYearBoundDates \/ GetRawExpenses

SpecYb == InitYb /\ [][NextYb]_vars

----------------------------------------------------------------------------
(* The ledger filter of expenses_to_csv, expenses.py 287-343, with          *)
(* get_owed_paid_shares_for_user, 87-100.                                   *)

MaxExpenses == 2

\* the user the ledger is made for, and the ids of the users of an expense
user_id == 1
UserIds == {1, 2}
Shares == {0, 50}

\* an entry of the users list of an expense
UserEntries == [user_id : UserIds, owed_share : Shares]

\* the users list of an expense: Splitwise lists at least one user
UsersLists == UNION {[1..n -> UserEntries] : n \in 1..2}

RawExpenses ==
    [id : 1..MaxExpenses, date : Dates, deleted : BOOLEAN, payment : BOOLEAN,
     users : UsersLists]

\* the expenses as fetched: an expense fetched in two overlapping year ranges
\* appears twice
RawExpenseLists ==
    UNION {{l \in [1..n -> RawExpenses] :
               \A i \in 1..n : \/ l[i].id = i
                               \/ \E j \in 1..(i - 1) : l[j].id = j /\ l[i] = l[j]}
           : n \in 0..MaxExpenses}

\* the share of the first user of the list, whoever it is
get_correct_user_share_firstUser(users_details, target_user_id) ==
    users_details[1].owed_share

\* expenses.py 93-98: the share of the first entry of the target user, 0.0
\* when the user has no entry
get_correct_user_share(users_details, target_user_id) ==
    LET record == SelectSeq(users_details, LAMBDA u : u.user_id = target_user_id)
    IN  IF Len(record) # 0 THEN record[1].owed_share ELSE 0

InitFt ==
    /\ RunRest
    /\ DbIdle /\ AcIdle /\ XlIdle /\ YbIdle /\ SsIdle /\ CcIdle /\ LgIdle
    /\ raw_expenses_df \in RawExpenseLists
    /\ filtered_ledger = <<>>
    /\ ft_pc = "idle"

\* expenses.py 291-343: the rows not deleted and not payments, the owed share
\* of the user assigned, the rows with owed > 0 kept and sorted by date
FilterExpenses ==
    /\ ft_pc = "idle"
    /\ LET filtered_expenses ==
               SelectSeq(raw_expenses_df, LAMBDA e : ~e.deleted /\ ~e.payment)
           assigned ==
               [i \in 1..Len(filtered_expenses) |->
                   [id |-> filtered_expenses[i].id,
                    date |-> filtered_expenses[i].date,
                    owed |-> get_correct_user_share(filtered_expenses[i].users,
                                                    user_id)]]
       IN  filtered_ledger' =
               sort_values(SelectSeq(assigned, LAMBDA t : t.owed > 0))
    /\ ft_pc' = "done"
    /\ UNCHANGED raw_expenses_df
    /\ UNCHANGED notft

NextFt == FilterExpenses

SpecFt == InitFt /\ [][NextFt]_vars

----------------------------------------------------------------------------
(* session_scope, database.py 151-162: the calls made on the session by     *)
(* one with-statement after another.  commit() may raise; rollback() and    *)
(* close() return.                                                          *)

MaxScopes == 3

\* the exceptions the with-block or commit() raises
Exceptions == {"IntegrityError", "ValueError"}

\* a handler that covers the with-block alone
HandlerOf_blockOnly(position) == IF position = "block" THEN "rollback" ELSE "close"

\* database.py 155-160: where control goes when an exception is raised at a
\* position inside the try statement -- the yield (the with-block) and the
\* commit are both covered by the bare except clause
HandlerOf(position) == "rollback"

InitSs ==
    /\ RunRest
    /\ DbIdle /\ AcIdle /\ XlIdle /\ YbIdle /\ FtIdle /\ CcIdle /\ LgIdle
    /\ ss_pc = "idle"
    /\ ss_calls = <<>>
    /\ ss_block = "none"
    /\ ss_raised = "none"
    /\ ss_history = <<>>

\* 153-156: the session is made and handed to the with-block
EnterScope ==
    /\ ss_pc \in {"idle", "exited"}
    /\ Len(ss_history) < MaxScopes
    /\ ss_pc' = "block"
    /\ ss_calls' = <<>>
    /\ ss_block' = "none"
    /\ ss_raised' = "none"
    /\ UNCHANGED ss_history
    /\ UNCHANGED notss

\* the with-block ends normally: control resumes after the yield
BlockReturns ==
    /\ ss_pc = "block"
    /\ ss_block' = "returned"
    /\ ss_pc' = "commit"
    /\ UNCHANGED <<ss_calls, ss_raised, ss_history>>
    /\ UNCHANGED notss

\* the with-block raises e: the exception is thrown in at the yield
BlockRaises ==
    /\ ss_pc = "block"
    /\ \E e \in Exceptions :
          /\ ss_block' = e
          /\ ss_raised' = e
    /\ ss_pc' = HandlerOf("block")
    /\ UNCHANGED <<ss_calls, ss_history>>
    /\ UNCHANGED notss

\* 157: session.commit(), which returns or raises
Commit ==
    /\ ss_pc = "commit"
    /\ ss_calls' = Append(ss_calls, "commit")
    /\ \/ /\ ss_pc' = "close"
          /\ UNCHANGED ss_raised
       \/ /\ \E e \in Exceptions : ss_raised' = e
          /\ ss_pc' = HandlerOf("commit")
    /\ UNCHANGED <<ss_block, ss_history>>
    /\ UNCHANGED notss

\* 158-160: session.rollback(), then raise: the exception stays pending
Rollback ==
    /\ ss_pc = "rollback"
    /\ ss_calls' = Append(ss_calls, "rollback")
    /\ ss_pc' = "close"
    /\ UNCHANGED <<ss_block, ss_raised, ss_history>>
    /\ UNCHANGED notss

\* 161-162: session.close() in the finally clause; the with-statement is
\* left, with the pending exception if there is one
Close ==
    /\ ss_pc = "close"
    /\ ss_calls' = Append(ss_calls, "close")
    /\ ss_pc' = "exited"
    /\ ss_history' = Append(ss_history,
           [calls |-> ss_calls', block |-> ss_block, raised |-> ss_raised])
    /\ UNCHANGED <<ss_block, ss_raised>>
    /\ UNCHANGED notss

NextSs ==
    \/ EnterScope
    \/ BlockReturns
    \/ BlockRaises
    \/ Commit
    \/ Rollback
    \/ Close

SpecSs == InitSs /\ [][NextSs]_vars

----------------------------------------------------------------------------
(* The append variant, process.currency_convert, process.py 52-103, with    *)
(* apis.get_exchange_rates (apis.py 47-58) and helpers.extra_df_entries     *)
(* (helpers.py 148-154).                                                    *)

\* the rate the upstream source quotes for a currency
UpstreamRateOf(c) == IF c = "EUR" THEN <<5, 4>> ELSE <<2, 1>>

\* the rates file before the call: absent, holding the header alone, or one
\* record of an earlier call
LgFiles ==
    { [exists |-> FALSE, rows |-> <<>>],
      [exists |-> TRUE, rows |-> <<>>],
      [exists |-> TRUE, rows |-> <<FileRow(1, "USD", UpstreamRateOf("USD"))>>] }

\* apis.py 47-58: one [date, currency, rate] per key of the response's
\* "rates", in the order of the keys
apis_get_exchange_rates(symbols, date_str, cs) ==
    [i \in 1..Len(RatesKeys(cs)) |->
        [date |-> date_str, currency_code |-> RatesKeys(cs)[i],
         rate_per_base |-> UpstreamRateOf(RatesKeys(cs)[i])]]

\* process.py 67-68: the rows in a currency other than the base currency
foreign_trns(trans) ==
    SelectSeq(trans, LAMBDA t : t.currency_code # DEFAULT_CURRENCY)

\* process.py 87-93: the left merge of the foreign rows with the rates on
\* the key, and Amount = Owed / Rate; a row without a rate gets NaN
MergeLeft(trans, all_rates) ==
    explode([i \in 1..Len(trans) |->
        LET t == trans[i]
            hits == SelectSeq(all_rates, LAMBDA r : r.date_curr = KeyOfRow(t))
        IN  IF hits = <<>>
            THEN <<[id |-> t.id, date |-> t.date, currency_code |-> t.currency_code,
                    owed |-> t.owed, amount |-> <<0, 0>>]>>
            ELSE [k \in 1..Len(hits) |->
                     [id |-> t.id, date |-> t.date,
                      currency_code |-> t.currency_code, owed |-> t.owed,
                      amount |-> Divide(<<t.owed, 1>>, hits[k].rate_per_base)]]])

\* process.py 95-97: the base-currency rows, Amount = Owed
local_trns(trans) ==
    LET rows == SelectSeq(trans, LAMBDA t : t.currency_code = DEFAULT_CURRENCY)
    IN  [i \in 1..Len(rows) |->
            [id |-> rows[i].id, date |-> rows[i].date,
             currency_code |-> rows[i].currency_code, owed |-> rows[i].owed,
             amount |-> <<rows[i].owed, 1>>]]

\* process.py 73: new_date_currs.Date.unique()
unique_dates(newdc) == SortedDays({newdc[i].date : i \in 1..Len(newdc)})

InitLg ==
    /\ RunRest
    /\ DbIdle /\ AcIdle /\ XlIdle /\ YbIdle /\ FtIdle /\ SsIdle /\ CcIdle
    /\ lg_file \in LgFiles
    /\ lg_transactions \in Ledgers
    /\ lg_pc = "idle"
    /\ lg_error = "none"
    /\ lg_new = <<>>
    /\ lg_old = <<>>
    /\ lg_rates = <<>>
    /\ lg_result = <<>>

\* process.py 60-73 with extra_df_entries: read_csv of the rates file (which
\* raises FileNotFoundError when there is none) and the pairs of the foreign
\* rows that are not in its index
LgLoad ==
    /\ lg_pc = "idle"
    /\ IF ~lg_file.exists
       THEN /\ lg_pc' = "failed"
            /\ lg_error' = "FileNotFoundError"
            /\ UNCHANGED <<lg_new, lg_old>>
       ELSE LET df1 == [i \in 1..Len(lg_file.rows) |->
                           [date_curr |-> lg_file.rows[i].date_curr,
                            date |-> lg_file.rows[i].date,
                            currency_code |-> lg_file.rows[i].currency_code,
                            rate_per_base |->
                                ParseFloat(lg_file.rows[i].rate_per_base)]]
                unique_date_currs ==
                    drop_duplicates(foreign_trns(lg_transactions), {})
                new_rows ==
                    sort_index(SelectSeq(unique_date_currs,
                                   LAMBDA r : r.date_curr \notin IndexOf(df1)))
            IN  /\ lg_old' = df1
                /\ lg_new' = new_rows
                /\ lg_pc' = IF Len(new_rows) > 0 THEN "fetch" ELSE "save"
                /\ UNCHANGED lg_error
    /\ UNCHANGED <<lg_file, lg_transactions, lg_rates, lg_result>>
    /\ UNCHANGED notlg

\* process.py 75-80, one turn of the loop: one call for all the currencies
\* missing on the date; the row kept is the key of the first missing pair of
\* the date followed by the first record of the response
LgFetch ==
    /\ lg_pc = "fetch"
    /\ LET d == unique_dates(lg_new)[Len(lg_rates) + 1]
           filter_by_date == SelectSeq(lg_new, LAMBDA r : r.date = d)
           date_curr_0 == filter_by_date[1].date_curr
           symbols == [i \in 1..Len(filter_by_date) |->
                          filter_by_date[i].currency_code]
       IN  \E cs \in Responses(Range(symbols)) :
               LET response == apis_get_exchange_rates(symbols, DateStr(d), cs)
               IN  IF response = <<>>
                   THEN /\ lg_pc' = "failed"
                        /\ lg_error' = "IndexError"
                        /\ UNCHANGED lg_rates
                   ELSE /\ lg_rates' = Append(lg_rates,
                               [date_curr |-> date_curr_0,
                                date |-> response[1].date,
                                currency_code |-> response[1].currency_code,
                                rate_per_base |-> response[1].rate_per_base])
                        /\ lg_pc' = IF Len(lg_rates) + 1 = Len(unique_dates(lg_new))
                                    THEN "save" ELSE "fetch"
                        /\ UNCHANGED lg_error
    /\ UNCHANGED <<lg_file, lg_transactions, lg_new, lg_old, lg_result>>
    /\ UNCHANGED notlg

\* process.py 82-103: the new rows appended to the file, the rates
\* concatenated, the foreign rows merged and converted, the base-currency
\* rows passed through
LgSave ==
    /\ lg_pc = "save"
    /\ lg_file' = [lg_file EXCEPT !.rows = @ \o
           [i \in 1..Len(lg_rates) |->
               [date_curr |-> lg_rates[i].date_curr,
                date |-> lg_rates[i].date,
                currency_code |-> lg_rates[i].currency_code,
                rate_per_base |-> FormatFloat(lg_rates[i].rate_per_base)]]]
    /\ lg_result' = local_trns(lg_transactions)
           \o MergeLeft(foreign_trns(lg_transactions), lg_old \o lg_rates)
    /\ lg_pc' = "done"
    /\ UNCHANGED <<lg_transactions, lg_error, lg_new, lg_old, lg_rates>>
    /\ UNCHANGED notlg

NextLg ==
    \/ LgLoad
    \/ LgFetch
    \/ LgSave

SpecLg == InitLg /\ [][NextLg]_vars

----------------------------------------------------------------------------
(* Properties *)

\* the rows of the current ledger in a currency other than the base
ForeignRows ==
    {i \in 1..Len(transactions) : transactions[i].currency_code # DEFAULT_CURRENCY}

\* the composite keys the ledger's foreign rows need
Required == {KeyOfRow(transactions[i]) : i \in ForeignRows}

\* the (date, currency) pairs of foreign rows with no record in the loaded store
MissingPairs ==
    {p \in {<<transactions[i].date, transactions[i].currency_code>> : i \in ForeignRows} :
        date_curr(p[1], p[2]) \notin IndexOf(existing_exchange_rates)}

MissingDates == {p[1] : p \in MissingPairs}

\* every request of the run has been answered
FetchPhaseOver ==
    \/ pc \in {"save", "convert", "write", "done"}
    \/ error \in {"TypeError", "AttributeError", "InvalidIndexError", "OSError"}

\* the conversion of the run has produced converted_transactions
Converted == pc \in {"write", "done"}

\* at most one row per (date, currency)
UniquePairs(rows) ==
    \A i, j \in 1..Len(rows) :
        (rows[i].date = rows[j].date /\ rows[i].currency_code = rows[j].currency_code)
            => i = j

\* amount * rate = owed, by cross-multiplication of the fractions
IsQuotient(amount, owed, rate) ==
    /\ amount[2] > 0
    /\ amount[1] * rate[1] = owed * rate[2] * amount[2]

\* the number of rows of rows equal to r
Count(rows, r) == Cardinality({i \in 1..Len(rows) : rows[i] = r})

C2_BatchingByDate ==
    /\ fetchCalls <= Cardinality(MissingDates)
    /\ FetchPhaseOver => fetchCalls = Cardinality(MissingDates)

C2_Witness ==
    /\ pc = "done"
    /\ Cardinality(MissingPairs) = 2
    /\ Cardinality(MissingDates) = 1
    /\ fetchCalls = 1

\* C3: Key uniqueness.  Starting from a missing or duplicate-free file, as
\* long as every response holds only requested currencies, the file, the
\* loaded store and the merged store hold at most one record per
\* (date, currency).
C3_KeyUniqueness ==
    (UniquePairs(initFile.rows) /\ ~strayResponse)
        => /\ UniquePairs(file.rows)
           /\ UniquePairs(existing_exchange_rates)
           /\ UniquePairs(all_exchange_rates)

C3_Witness ==
    /\ runs = 2 /\ pc = "done"
    /\ UniquePairs(initFile.rows) /\ ~strayResponse
    /\ previous.calls > 0 /\ fetchCalls > 0
    /\ Len(file.rows) >= 3

\* C4: The base currency is never stored.  Starting from a file with no
\* base-currency record, no record of the file or of the store has the base
\* currency, whatever the responses hold.
C4_BaseNeverStored ==
    (\A i \in 1..Len(initFile.rows) : initFile.rows[i].currency_code # DEFAULT_CURRENCY)
        => /\ \A i \in 1..Len(file.rows) :
                  file.rows[i].currency_code # DEFAULT_CURRENCY
           /\ \A i \in 1..Len(all_exchange_rates) :
                  all_exchange_rates[i].currency_code # DEFAULT_CURRENCY

\* C5: Records are immutable and the store only grows.  No step removes the
\* file or a record of it: every record is in the file afterwards, as often as
\* before, with the same date, currency and rate; and while responses hold
\* only requested currencies no record is added for a key the file already
\* has, although the upstream rate has changed since.
C5_RecordsImmutable ==
    [][ /\ file.exists => file'.exists
        /\ \A r \in Range(file.rows) : Count(file'.rows, r) >= Count(file.rows, r)
        /\ ~strayResponse' =>
               \A r \in Range(file'.rows) :
                   r.date_curr \in IndexOf(file.rows) => r \in Range(file.rows)
      ]_vars

C5_Witness ==
    /\ runs = 2 /\ pc = "done" /\ fetchCalls > 0
    /\ \E r \in Range(file.rows) : ParseFloat(r.rate_per_base) = UpstreamRate(1)
    /\ \E r \in Range(file.rows) : ParseFloat(r.rate_per_base) = UpstreamRate(2)
    /\ UpstreamRate(1) # UpstreamRate(2)

\* C6: Conversion formula.  Every transaction whose composite key has a record
\* in the merged store gets amount = owed / that record's rate; the ledger
\* [2023-06-01, USD, 100] with no cache and a fetched rate of 1.25 gives amount
\* 80 and a file of exactly one row keyed 2023-06-01_USD.
C6_Example ==
    /\ runs = 1 /\ pc = "done" /\ initFile = NoFile
    /\ transactions = <<[id |-> 1, date |-> 1, currency_code |-> "USD", owed |-> 100]>>
    /\ rates_list = <<<<[date_curr |-> "2023-06-01_USD", date |-> "2023-06-01",
                         currency_code |-> "USD", rate_per_base |-> <<5, 4>>]>>>>

C6_ConversionFormula ==
    /\ Converted =>
           \A i \in 1..Len(transactions) :
               \A rec \in Range(all_exchange_rates) :
                   rec.date_curr = KeyOfRow(transactions[i])
                       => IsQuotient(converted_transactions[i].amount,
                                     transactions[i].owed, rec.rate_per_base)
    /\ C6_Example =>
           /\ converted_transactions[1].amount = <<80, 1>>
           /\ file = [exists |-> TRUE,
                      header |-> <<"date_curr", "date", "currency_code", "rate_per_base">>,
                      rows |-> <<[date_curr |-> "2023-06-01_USD", date |-> "2023-06-01",
                                  currency_code |-> "USD", rate_per_base |-> "1.25"]>>]

C6_Witness == C6_Example /\ converted_transactions[1].amount = <<80, 1>>

\* C7: Base-currency passthrough.  Whatever the store holds, a transaction in
\* the base currency gets amount equal to owed.
C7_BasePassthrough ==
    Converted =>
        \A i \in 1..Len(transactions) :
            transactions[i].currency_code = DEFAULT_CURRENCY
                => converted_transactions[i].amount = <<transactions[i].owed, 1>>

\* C8: Fallback policy.  A transaction whose composite key has no record in
\* the merged store gets amount equal to owed, the rows whose key has a record
\* are converted with it, every row gets an amount, and the conversion aborts
\* only when the store's keys are not unique, never over a missing key.
C8_FallbackPolicy ==
    /\ Converted =>
           /\ Len(converted_transactions) = Len(transactions)
           /\ \A i \in 1..Len(transactions) :
                  IF KeyOfRow(transactions[i]) \in IndexOf(all_exchange_rates)
                  THEN \E rec \in Range(all_exchange_rates) :
                           /\ rec.date_curr = KeyOfRow(transactions[i])
                           /\ IsQuotient(converted_transactions[i].amount,
                                         transactions[i].owed, rec.rate_per_base)
                  ELSE converted_transactions[i].amount = <<transactions[i].owed, 1>>
    /\ error = "InvalidIndexError" => ~UniquePairs(all_exchange_rates)

C8_Witness ==
    /\ pc = "done" /\ fetchCalls > 0
    /\ \E i, j \in ForeignRows :
           /\ KeyOfRow(transactions[i]) \notin IndexOf(all_exchange_rates)
           /\ converted_transactions[i].amount = <<transactions[i].owed, 1>>
           /\ KeyOfRow(transactions[j]) \in IndexOf(all_exchange_rates)
           /\ converted_transactions[j].amount # <<transactions[j].owed, 1>>

\* C9: Unresolved-rate warning.  Whenever a foreign-currency transaction is
\* converted with the fallback rate 1 because its key has no record, a warning
\* has been emitted in that run.
C9_UnresolvedRateWarning ==
    (Converted /\ \E i \in ForeignRows :
                      KeyOfRow(transactions[i]) \notin IndexOf(all_exchange_rates))
        => warnings > 0

\* the header is the canonical schema up to the place of the key column: it
\* has a date_curr column and the other columns are date, currency_code,
\* rate_per_base in that order
SchemaAccepted(header) ==
    \E p \in 1..Len(header) :
        /\ header[p] = "date_curr"
        /\ SubSeq(header, 1, p - 1) \o SubSeq(header, p + 1, Len(header))
               = <<"date", "currency_code", "rate_per_base">>

C11_FetchFailureFatal ==
    /\ Len(http_requests) = fetchCalls
    /\ \A k \in 1..Len(http_requests) :
           http_requests[k].status # 200
               => /\ k = Len(http_requests)
                  /\ pc = "failed"
                  /\ error = "APICallError"
    /\ error = "APICallError"
           => /\ http_requests # <<>>
              /\ http_requests[Len(http_requests)].status # 200
    /\ \A k, m \in 1..Len(http_requests) :
           http_requests[k].date = http_requests[m].date => k = m
    /\ \A k \in 1..Len(http_requests) :
           \A i, j \in 1..Len(http_requests[k].symbols) :
               http_requests[k].symbols[i] = http_requests[k].symbols[j] => i = j

C11_Witness ==
    /\ pc = "failed" /\ error = "APICallError"
    /\ Len(http_requests) = 2
    /\ http_requests[1].status = 200
    /\ http_requests[2].status # 200
    /\ Len(rates_list) = 1
    /\ file = atStart.file /\ outFile = atStart.outFile

\* the file f holds the records of table, row for row
HoldsStore(f, table) ==
    /\ f.exists
    /\ Len(f.rows) = Len(table)
    /\ \A i \in 1..Len(table) :
           /\ f.rows[i].date_curr = table[i].date_curr
           /\ f.rows[i].currency_code = table[i].currency_code
           /\ ParseFloat(f.rows[i].rate_per_base) = table[i].rate_per_base

FetchedRecords == UNION {Range(rates_list[k]) : k \in 1..Len(rates_list)}

\* the file has a row for the record rec
OnDisk(rec) ==
    \E i \in 1..Len(file.rows) :
        /\ file.rows[i].date_curr = rec.date_curr
        /\ file.rows[i].date = rec.date
        /\ file.rows[i].currency_code = rec.currency_code
        /\ ParseFloat(file.rows[i].rate_per_base) = rec.rate_per_base

\* C13: Persist before convert.  In a run with missing pairs, until the merged
\* store has been written no transaction is converted and the ledger is not
\* written; and from the conversion on, also when the conversion or the
\* writing of the ledger fails, the file holds the merged store and in it
\* every record fetched in the run.
C13_PersistBeforeConvert ==
    /\ pc \in {"load", "fetch", "save"}
           => (converted_transactions = <<>> /\ outFile = atStart.outFile)
    /\ (new_date_currencies # <<>>
           /\ (pc \in {"convert", "write", "done"} \/ FailedAfterUpdate))
           => /\ HoldsStore(file, all_exchange_rates)
              /\ \A rec \in FetchedRecords : OnDisk(rec)

C13_Witness ==
    /\ pc = "failed" /\ error = "InvalidIndexError"
    /\ Len(rates_list) = 2
    /\ \A rec \in FetchedRecords : OnDisk(rec)
    /\ \E rec \in FetchedRecords :
           rec.date_curr \notin IndexOf(atStart.file.rows)
    /\ converted_transactions = <<>>
    /\ outFile = atStart.outFile

\* the file as the run found it has a record for every pair the ledger's
\* foreign rows need: the ledger is empty, all in the base currency, or cached
NothingMissing == Required \subseteq IndexOf(atStart.file.rows)

\* the rows of f are not in ascending key order
OutOfOrder(f) ==
    \E i, j \in 1..Len(f.rows) :
        i < j /\ KeyRank(f.rows[i].date_curr) > KeyRank(f.rows[j].date_curr)

\* C14: Store untouched when nothing is missing.  A run on an empty ledger, on
\* a ledger all in the base currency, or on a ledger whose pairs are all in
\* the file makes no fetch call, sends no request, and leaves the cache file
\* as it found it: not written, not created, not reordered.
C14_StoreUntouched ==
    (runs >= 1 /\ NothingMissing)
        => /\ fetchCalls = 0 /\ http_requests = <<>>
           /\ file = atStart.file

C14_Witness ==
    /\ pc = "done"
    /\ Required # {} /\ NothingMissing
    /\ OutOfOrder(atStart.file)
    /\ file = atStart.file
    /\ fetchCalls = 0

\* C15: Row preservation.  The converted ledger has the rows of the input
\* ledger, as many and in the same places, each with its id and every input
\* field unchanged, with the one field amount added and no date_curr field.
C15_RowPreservation ==
    Converted =>
        /\ Len(converted_transactions) = Len(transactions)
        /\ \A i \in 1..Len(transactions) :
               /\ DOMAIN converted_transactions[i]
                      = DOMAIN transactions[i] \cup {"amount"}
               /\ "amount" \notin DOMAIN transactions[i]
               /\ "date_curr" \notin DOMAIN converted_transactions[i]
               /\ \A f \in DOMAIN transactions[i] :
                      converted_transactions[i][f] = transactions[i][f]

C15_Witness ==
    /\ pc = "write"
    /\ Len(converted_transactions) = 2
    /\ converted_transactions[1].id = converted_transactions[2].id
    /\ transactions[1].currency_code # DEFAULT_CURRENCY
    /\ converted_transactions[1].amount # <<transactions[1].owed, 1>>
    /\ \A i \in 1..2 : \A f \in DOMAIN transactions[i] :
           converted_transactions[i][f] = transactions[i][f]

\* the dates of rows never decrease from one row to the next
SortedByDate(rows) ==
    \A i, j \in 1..Len(rows) : i < j => rows[i].date <= rows[j].date

\* C16: The ledger written by expenses_to_csv is sorted by date,
\* non-decreasing, and the conversion returns the rows in the order in which
\* it received them.
C16_SortedByDate ==
    /\ SortedByDate(outFile)
    /\ Converted =>
           /\ Len(converted_transactions) = Len(transactions)
           /\ \A i \in 1..Len(transactions) :
                  /\ converted_transactions[i].id = transactions[i].id
                  /\ converted_transactions[i].date = transactions[i].date
           /\ SortedByDate(converted_transactions)

C16_Witness ==
    /\ pc = "done"
    /\ Len(outFile) = 2
    /\ outFile[1].date < outFile[2].date
    /\ outFile[1].id > outFile[2].id
    /\ outFile = converted_transactions

\* the keys the merged store holds more than one record for
DuplicatedKeys ==
    {k \in IndexOf(all_exchange_rates) :
        \E i, j \in 1..Len(all_exchange_rates) :
            /\ i # j
            /\ all_exchange_rates[i].date_curr = k
            /\ all_exchange_rates[j].date_curr = k}

\* the rate of the last record of the merged store with key k
LastRate(k) ==
    LET last == CHOOSE i \in 1..Len(all_exchange_rates) :
                    /\ all_exchange_rates[i].date_curr = k
                    /\ \A j \in 1..Len(all_exchange_rates) :
                           all_exchange_rates[j].date_curr = k => j <= i
    IN  all_exchange_rates[last].rate_per_base

\* C17: Duplicate keys do not crash.  When the store holds two records with
\* the same key, the conversion completes without error, and every
\* transaction with that key is converted with the rate of the record
\* written last.
C17_DuplicateKeysNoCrash ==
    (DuplicatedKeys # {} /\ UpdateReturned /\ pc # "convert")
        => /\ error # "InvalidIndexError"
           /\ Converted =>
                  \A i \in 1..Len(transactions) :
                      KeyOfRow(transactions[i]) \in DuplicatedKeys
                          => IsQuotient(converted_transactions[i].amount,
                                        transactions[i].owed,
                                        LastRate(KeyOfRow(transactions[i])))

\* what a row of the file says: key, date, currency and the rate as a number
RowValue(row) ==
    [date_curr |-> row.date_curr, date |-> row.date,
     currency_code |-> row.currency_code,
     rate_per_base |-> ParseFloat(row.rate_per_base)]

\* the number of rows of the file f that say v
RowCount(f, v) == Cardinality({i \in 1..Len(f.rows) : RowValue(f.rows[i]) = v})

\* the number of records received in this run that say v
FetchedCount(v) ==
    LET recs == explode(rates_list)
    IN  Cardinality({i \in 1..Len(recs) : recs[i] = v})

\* C18: Every save overwrites the whole file with exactly the loaded records
\* plus the records fetched in the run: the file has the header row, every
\* record as often as the file before the run and the responses held it,
\* nothing else, and its rows are in ascending key order.
C18_SaveWritesMergedStore ==
    Saved =>
        /\ file.exists
        /\ file.header = <<"date_curr", "date", "currency_code", "rate_per_base">>
        /\ \A v \in {RowValue(row) : row \in Range(file.rows) \cup Range(atStart.file.rows)}
                     \cup FetchedRecords :
               RowCount(file, v) = RowCount(atStart.file, v) + FetchedCount(v)
        /\ ~OutOfOrder(file)

C18_Witness ==
    /\ Saved /\ pc = "done"
    /\ OutOfOrder(atStart.file)
    /\ ~OutOfOrder(file)
    /\ Len(file.rows) = Len(atStart.file.rows) + 2
    /\ Len(rates_list) = 2

CallEnded == db_pc \in {"done", "failed"}

\* C20: add_and_update_records is an upsert.  For a frame with one row per
\* key, the call returns, and afterwards the table holds every row of the
\* frame (the rows whose key existed updated, the others inserted), every
\* other row as it was, and exactly one row per key.
C20_Upsert ==
    (CallEnded /\ \A i, j \in 1..Len(new_and_updated) :
                      new_and_updated[i].id = new_and_updated[j].id => i = j)
        => /\ db_pc = "done"
           /\ \A r \in Range(new_and_updated) : r \in db_table
           /\ \A q \in existing_records :
                  q.id \notin KeysOf(Range(new_and_updated)) => q \in db_table
           /\ KeysOf(db_table)
                  = KeysOf(existing_records) \cup KeysOf(Range(new_and_updated))
           /\ \A r, q \in db_table : r.id = q.id => r = q

\* C21: Account detection.  determine_account_from_details and
\* find_account_in_text return, without raising, "PayPal" when the details
\* text contains "paypal" in any letter case, and "Current" for every other
\* argument, the empty text and a missing value included.
C21_AccountDetection ==
    account.fn # "none"
        => /\ account.raised = "none"
           /\ account.value =
                  IF ~details.missing /\ Contains(details.text)
                  THEN "PayPal" ELSE "Current"

\* C22: get_excel_table.  On a sheet with no data rows the call raises the
\* NoDataWarning the package exports (src.NoDataWarning, the class the test
\* expects) and returns no table; on a sheet with rows of dates it returns
\* the rows sorted by Date.
C22_ExcelTable ==
    excel_table.called
        => IF Len(sheet.rows) = 0
           THEN /\ IsInstance(excel_table.raised, "src.NoDataWarning")
                /\ excel_table.rows = <<>>
           ELSE sheet.datetimes
                   => /\ excel_table.raised = "none"
                      /\ excel_table.rows = sort_values(sheet.rows)
                      /\ \A i \in 1..(Len(excel_table.rows) - 1) :
                             excel_table.rows[i].date
                                <= excel_table.rows[i + 1].date

\* C23: The fetch plan.  The currency list of the call for a date d is, as a
\* set, the currencies c for which a ledger row has (d, c), c is not the base
\* currency and (d, c) has no record in the loaded store; the list is not
\* empty and names no currency twice, and no two calls of a run are for the
\* same date, so no pair is requested twice.
C23_FetchPlan ==
    \A k \in 1..Len(http_requests) :
        LET q == http_requests[k]
        IN  /\ Range(q.symbols)
                  = {p[2] : p \in {m \in MissingPairs : DateStr(m[1]) = q.date}}
            /\ q.symbols # <<>>
            /\ \A i, j \in 1..Len(q.symbols) :
                   q.symbols[i] = q.symbols[j] => i = j
            /\ \A n \in 1..Len(http_requests) :
                   http_requests[n].date = q.date => n = k

\* a run that ended after a call for a date on which one currency of the
\* ledger was already stored and so was left out of the list
C23_Witness ==
    /\ pc = "done"
    /\ \E k \in 1..Len(http_requests) : \E i \in ForeignRows :
           /\ http_requests[k].date = DateStr(transactions[i].date)
           /\ KeyOfRow(transactions[i]) \in IndexOf(existing_exchange_rates)
           /\ transactions[i].currency_code \notin Range(http_requests[k].symbols)

\* the composite keys of the pairs requested in the calls of the run
RequestedKeys ==
    UNION {{http_requests[k].date \o "_" \o c : c \in Range(http_requests[k].symbols)}
           : k \in 1..Len(http_requests)}

\* C24: Missing cache file.  A run that finds no cache file raises no error
\* in the load and takes the store as empty: every pair of the ledger's
\* foreign rows is missing and, once every request has been answered, has
\* been requested; the save creates the file with the canonical header and
\* exactly the records fetched in the run.
C24_MissingCacheFile ==
    (runs >= 1 /\ ~atStart.file.exists)
        => /\ error \notin {"FileNotFoundError", "ValueError", "AssertionError"}
           /\ pc # "load"
                  => /\ existing_exchange_rates = <<>>
                     /\ IndexOf(new_date_currencies) = Required
           /\ FetchPhaseOver => RequestedKeys = Required
           /\ Saved
                  => /\ file.exists
                     /\ file.header = exchange_rate_column_names
                     /\ Len(file.rows) = Cardinality(FetchedRecords)
                     /\ \A rec \in FetchedRecords : OnDisk(rec)

\* a first run without a cache file that fetched two records and created
\* the file with them
C24_Witness ==
    /\ runs = 1 /\ pc = "done"
    /\ ~atStart.file.exists
    /\ Cardinality(Required) = 2
    /\ file.exists /\ Len(file.rows) = 2
    /\ file.header = exchange_rate_column_names

\* the composite keys of the pairs requested in an answered call whose
\* response held no rate for them
OmittedKeys ==
    UNION {{forex_requests[k].date \o "_" \o c :
               c \in Range(forex_requests[k].currency_code)
                        \ {rates_list[k][i].currency_code : i \in 1..Len(rates_list[k])}}
           : k \in 1..Len(rates_list)}

\* C26: Partial fetch response.  When a response held no rate for a requested
\* currency and no call of the run failed, the run ends with no record in the
\* file for that pair and with every rate the run's responses did return
\* saved in the file; and a following run on the same ledger requests every
\* pair the file does not hold.
C26_PartialResponse ==
    /\ (OmittedKeys # {} /\ pc \in {"convert", "write", "done", "failed"}
           /\ error # "APICallError")
           => /\ \A key \in OmittedKeys : key \notin IndexOf(file.rows)
              /\ \A rec \in FetchedRecords : OnDisk(rec)
    /\ (runs = 2 /\ transactions = previous.transactions /\ FetchPhaseOver)
           => (Required \ IndexOf(atStart.file.rows)) \subseteq RequestedKeys

\* C25: Concurrent runs.  As long as no run read the cache file while
\* another run was between its read and its write of the file, every record
\* a run wrote is in the file: runs made one after another lose nothing.
\* (That runs which overlap can lose a record is the reachable state
\* C25_Witness.)
C25_NoLossWithoutOverlap ==
    ~cc_overlap => cc_saved \subseteq Range(cc_file.rows)

\* two overlapping runs have ended and a record one of them saved is not
\* in the file
C25_Witness ==
    /\ cc_overlap
    /\ \A p \in Procs : cc_proc[p].pc = "done" /\ cc_proc[p].runs = 1
    /\ \E rec \in cc_saved :
           /\ rec \notin Range(cc_file.rows)
           /\ rec.date_curr \notin IndexOf(cc_file.rows)

\* C27: The year ranges.  The ranges get_year_bound_dates returns are in
\* chronological order and pairwise disjoint, every day from the start date
\* to today lies in one of them, and once expenses_to_csv has fetched them
\* all no expense is in raw_expenses twice -- also when the start date is in
\* the current year.
C27_YearRanges ==
    yb_pc >= 1
        => /\ \A i, j \in 1..Len(boundary_dates) :
                  i < j => DayNumber(boundary_dates[i][2])
                              < DayNumber(boundary_dates[j][1])
           /\ \A n \in DayNumber(start_date)..DayNumber(today) :
                  \E i \in 1..Len(boundary_dates) :
                      /\ DayNumber(boundary_dates[i][1]) <= n
                      /\ n <= DayNumber(boundary_dates[i][2])
           /\ yb_pc > Len(boundary_dates)
                  => \A i, j \in 1..Len(raw_expenses) :
                         raw_expenses[i].id = raw_expenses[j].id => i = j

\* the user has an entry in the users list of expense e
Appears(e) == \E k \in 1..Len(e.users) : e.users[k].user_id = user_id

\* C28: Ledger filtering.  Every row passed on to the conversion comes from
\* an expense that is not deleted, is not a payment and in which the target
\* user has an owed share above 0, which is the row's owed amount; an
\* expense in which the target user does not appear gives no row.
C28_LedgerFiltering ==
    ft_pc = "done"
        => /\ \A r \in 1..Len(filtered_ledger) :
                  \E i \in 1..Len(raw_expenses_df) :
                      LET e == raw_expenses_df[i]
                      IN  /\ e.id = filtered_ledger[r].id
                          /\ ~e.deleted /\ ~e.payment
                          /\ \E k \in 1..Len(e.users) :
                                 /\ e.users[k].user_id = user_id
                                 /\ e.users[k].owed_share > 0
                                 /\ filtered_ledger[r].owed = e.users[k].owed_share
           /\ \A i \in 1..Len(raw_expenses_df) :
                  ~Appears(raw_expenses_df[i])
                      => \A r \in 1..Len(filtered_ledger) :
                             filtered_ledger[r].id # raw_expenses_df[i].id

\* one of two live expenses is kept; the other one, shared among other
\* users only, is left out
C28_Witness ==
    /\ ft_pc = "done"
    /\ Len(raw_expenses_df) = 2 /\ Len(filtered_ledger) = 1
    /\ \E i \in 1..2 :
           LET e == raw_expenses_df[i]
           IN  /\ ~e.deleted /\ ~e.payment /\ ~Appears(e)
               /\ e.users[1].owed_share > 0
               /\ e.id # filtered_ledger[1].id

\* the number of calls of the method in calls
CallCount(calls, method) ==
    Cardinality({i \in 1..Len(calls) : calls[i] = method})

\* C29: The session_scope protocol.  A with-statement whose block ended
\* normally and whose commit returned made exactly the calls commit, close;
\* one whose block raised made exactly rollback, close, never commit, and
\* left with the exception the block raised; one whose commit raised made
\* commit, rollback, close and left with an exception.  On every path close
\* is called once, last, and commit at most once.
C29_SessionScope ==
    /\ \A n \in 1..Len(ss_history) :
           LET h == ss_history[n]
           IN  /\ (h.block = "returned" /\ h.raised = "none")
                      => h.calls = <<"commit", "close">>
               /\ h.block # "returned"
                      => (h.calls = <<"rollback", "close">> /\ h.raised = h.block)
               /\ (h.block = "returned" /\ h.raised # "none")
                      => h.calls = <<"commit", "rollback", "close">>
               /\ CallCount(h.calls, "close") = 1
               /\ h.calls[Len(h.calls)] = "close"
    /\ CallCount(ss_calls, "close") <= 1
    /\ CallCount(ss_calls, "commit") <= 1
    /\ ss_block \in Exceptions => CallCount(ss_calls, "commit") = 0

\* a with-statement whose commit raised, after one that ended normally and
\* one whose block raised
C29_Witness ==
    /\ Len(ss_history) = 3
    /\ ss_history[1].calls = <<"commit", "close">>
    /\ ss_history[2].block \in Exceptions
    /\ ss_history[3].block = "returned" /\ ss_history[3].raised \in Exceptions
    /\ ss_history[3].calls = <<"commit", "rollback", "close">>

\* the first record of every response so far was the rate of the first
\* currency asked for, as it is when a response holds the requested
\* currencies in the order of the request
FirstRecordsAsRequested ==
    \A k \in 1..Len(lg_rates) :
        lg_rates[k].date_curr
            = lg_rates[k].date \o "_" \o lg_rates[k].currency_code

\* C30: The append variant.  After a call of process.currency_convert that
\* ran to its end, with responses that held what was asked for, every missing
\* pair has exactly one appended row, whose key, date, currency and rate are
\* those of the pair -- also when several currencies are missing on one
\* date -- and every foreign transaction has a converted Amount that is a
\* number.
C30_LegacyAppend ==
    (lg_pc = "done" /\ FirstRecordsAsRequested)
        => /\ \A n \in 1..Len(lg_new) :
                  LET pair == lg_new[n]
                      rows == SelectSeq(lg_rates,
                                        LAMBDA r : r.date_curr = pair.date_curr)
                  IN  /\ Len(rows) = 1
                      /\ rows[1].date = DateStr(pair.date)
                      /\ rows[1].currency_code = pair.currency_code
                      /\ rows[1].rate_per_base = UpstreamRateOf(pair.currency_code)
           /\ \A i \in 1..Len(lg_result) :
                  lg_result[i].currency_code # DEFAULT_CURRENCY
                      => lg_result[i].amount # <<0, 0>>

====
